---- MODULE Spec2Model ----
(***************************************************************************)
(* Model of src/server.py: the registration / e-mail verification / login *)
(* workflow, the session tokens and the per-user media list.               *)
(*                                                                         *)
(* The store (MongoDB) executes each find_one / insert_one / update_one /  *)
(* delete_one atomically; a handler is a coroutine that may be suspended   *)
(* at every await, so a handler is modelled as one action per store        *)
(* operation: the action runs the store operation and the synchronous      *)
(* code up to the next await.  The first action of a handler is also the   *)
(* arrival of the request.                                                 *)
(***************************************************************************)
EXTENDS Integers, Sequences, FiniteSets, TLC

\* ---------------------------------------------------------------- bounds
MaxUsers == 2
MaxTok == 2
MaxSessions == 1
MaxIssueTick == 1
MaxMedia == 1

\* ---------------------------------------------------------------- inputs
Workers == {1, 2}
Emails == {"a@x.com", "b@x.com"}
Passwords == {"pw1", "wrong"}
Names == {"Alice"}

NoToken == 0
BogusToken == -1
NoEmail == ""

\* ------------------------------------------------------------ environment
ACCESS_TOKEN_EXPIRE_MINUTES == 1
SecondsPerMinute == 60
TicksPerSecond == 2

\* ---------------------------------------------------------------- models
NoDoc ==
    [id |-> 0, email |-> NoEmail, name |-> "", hashed_password |-> [bcrypt |-> ""],
     is_verified |-> FALSE, verification_token |-> NoToken]

User(id, email, name, hashed_password, verification_token) ==
    [id |-> id, email |-> email, name |-> name, hashed_password |-> hashed_password,
     is_verified |-> FALSE, verification_token |-> verification_token]

UserResponse(u) ==
    [id |-> u.id, email |-> u.email, name |-> u.name, is_verified |-> u.is_verified]

None == "None"
MediaFields == {"title", "type", "status", "current", "total"}

\* lines 104-114; created_at and updated_at are clock readings
MediaItem(id, user_id, data, at) ==
    [id |-> id, user_id |-> user_id, title |-> data.title, type |-> data.type,
     status |-> data.status, current |-> data.current, total |-> data.total,
     created_at |-> at, updated_at |-> at]

\* lines 123-128: the fields the request supplied, and their values
MediaItemUpdate(supplied, title, status, current) ==
    [set |-> supplied, title |-> title, type |-> None, status |-> status,
     current |-> current, total |-> 0]

NoBody == MediaItemUpdate({}, None, None, 0)

\* lines 116-121: every field has a value, given or default
MediaItemCreate(title, type, status, current, total) ==
    [set |-> MediaFields, title |-> title, type |-> type, status |-> status,
     current |-> current, total |-> total]

\* --------------------------------------------------------------- helpers
hash_password(password) == [bcrypt |-> password]

\* mutant: any password is accepted
verify_password_any(plain_password, hashed_password) == TRUE

verify_password(plain_password, hashed_password) ==
    hashed_password = [bcrypt |-> plain_password]

\* the store: a collection is the sequence of its documents in insertion order;
\* a query {"f": v, ...} matches the documents that have these values
Matches(doc, query) == \A f \in DOMAIN query : doc[f] = query[f]

\* the first document that matches (0: none)
FirstIndex(coll, query) ==
    LET hits == {i \in 1..Len(coll) : Matches(coll[i], query)}
    IN  IF hits = {} THEN 0 ELSE CHOOSE i \in hits : \A j \in hits : i <= j

\* {"$set": fields}
SetFields(doc, fields) ==
    [f \in DOMAIN doc |-> IF f \in DOMAIN fields THEN fields[f] ELSE doc[f]]

find_one(coll, query) ==
    LET i == FirstIndex(coll, query) IN IF i = 0 THEN NoDoc ELSE coll[i]

update_one(coll, query, fields) ==
    LET i == FirstIndex(coll, query)
    IN  IF i = 0 THEN coll ELSE [coll EXCEPT ![i] = SetFields(@, fields)]

\* line 297: delete_one(query) removes the first document that matches
delete_one(coll, query) ==
    LET i == FirstIndex(coll, query)
    IN  IF i = 0 THEN coll
        ELSE SubSeq(coll, 1, i - 1) \o SubSeq(coll, i + 1, Len(coll))

\* -------------------------------------------------------------- responses
NoResp == [status |-> 0, detail |-> "", data |-> {}]
Http(status, detail) == [status |-> status, detail |-> detail, data |-> {}]
Ok(detail, data) == [status |-> 200, detail |-> detail, data |-> data]

InvalidToken == Http(401, "Invalid token")
TokenExpired == Http(401, "Token expired")
InvalidTokenPayload == Http(401, "Invalid token payload")
UserNotFound == Http(401, "User not found")
MediaNotFound == Http(404, "Media not found")
InternalServerError == Http(500, "Internal Server Error")
DuplicateEmail == Http(400, "Email already registered")
InvalidOrExpiredToken == Http(400, "Invalid or expired token")
InvalidCredentials == Http(401, "Invalid email or password")
EmailNotVerified == Http(403, "Verify your email first")
MissingEmail == Http(400, "Email is required")
UserNotFound404 == Http(404, "User not found")

\* ------------------------------------------------------------------ state
VARIABLES
    users,      \* db.users, in insertion order
    nextTok,    \* the next value secrets.token_urlsafe returns (always fresh)
    mailing,    \* verification e-mails being sent
    sessions,   \* the session tokens issued so far
    now,        \* the clock, in ticks of 1/TicksPerSecond s
    limit,      \* how many requests the server handles at once
    smtp,       \* EMAIL_USERNAME and EMAIL_PASSWORD are set (line 163)
    horizon,    \* the last tick the clock is followed to
    media,      \* db.media, in insertion order
    nextMid,    \* the next media id uuid4 returns (always fresh)
    req         \* per worker: the request it handles, its locals, its response

cfg == <<limit, smtp, horizon>>
vars == <<users, nextTok, mailing, sessions, now, media, nextMid, cfg, req>>

\* a bearer token this server did not sign
Garbage == [sub |-> 0, email |-> NoEmail, exp |-> 0, iat |-> 0, signed |-> FALSE]

\* a worker with no request, and the last response it sent
Blank ==
    [op |-> "none", pc |-> "done", email |-> NoEmail, password |-> "", name |-> "",
     token |-> NoToken, doc |-> NoDoc, bearer |-> Garbage, mid |-> 0, body |-> NoBody,
     resp |-> NoResp]

Idle(resp, op) == [Blank EXCEPT !.op = op, !.resp = resp]

InFlight == {w \in Workers : req[w].pc # "done"}

\* tokens and users the requests in flight may still create
Pending(pcs) == Cardinality({w \in Workers : req[w].pc \in pcs})

\* a request is taken by the first free worker
CanStart(w) ==
    /\ req[w].pc = "done"
    /\ Cardinality(InFlight) < limit
    /\ \A v \in Workers : req[v].pc = "done" => w <= v

Finish(w, resp) ==
    req' = [req EXCEPT ![w] =
              [Blank EXCEPT !.op = req[w].op, !.bearer = req[w].bearer, !.resp = resp]]

Init ==
    /\ users = <<>>
    /\ nextTok = 1
    /\ mailing = {}
    /\ sessions = {}
    /\ now = 0
    /\ limit = Cardinality(Workers)
    /\ smtp = FALSE
    /\ horizon = 0
    /\ media = <<>>
    /\ nextMid = 1
    /\ req = [w \in Workers |-> Idle(NoResp, "none")]

\* the sender of a mail: a worker (resend_verification) or the detached thread
Thread == 0

\* lines 162-165: without credentials the mail is skipped at once; otherwise the
\* SMTP exchange of lines 167-195 is under way, in the thread or the handler `by`
send_verification_email(email, token, by) ==
    IF smtp THEN {[to |-> email, token |-> token, by |-> by]} ELSE {}

\* ----------------------------------------------------------------- signup
\* mutant: only verified accounts are looked up
ByEmailVerifiedOnly(email) ==
    find_one(users, [email |-> email, is_verified |-> TRUE])

ByEmail(email) == find_one(users, [email |-> email])

\* line 206: existing_user = await db.users.find_one({"email": ...})
SignupFind(w, email, password, name) ==
    /\ CanStart(w)
    /\ Len(users) + Pending({"signup_insert"}) < MaxUsers
    /\ nextTok + Pending({"signup_insert", "resend_update"}) <= MaxTok
    /\ req' = [req EXCEPT ![w] =
                 [Blank EXCEPT !.op = "signup", !.pc = "signup_insert", !.email = email,
                     !.password = password, !.name = name, !.token = NoToken,
                     !.doc = ByEmail(email)]]
    /\ UNCHANGED <<users, nextTok, mailing, sessions, now, media, nextMid, cfg>>

\* lines 207-208
SignupRejected(w) ==
    /\ req[w].pc = "signup_insert"
    /\ req[w].doc # NoDoc
    /\ Finish(w, DuplicateEmail)
    /\ UNCHANGED <<users, nextTok, mailing, sessions, now, media, nextMid, cfg>>

\* lines 210-225: the insert, the detached mail thread, the response
SignupInsert(w) ==
    /\ req[w].pc = "signup_insert"
    /\ req[w].doc = NoDoc
    /\ LET verification_token == nextTok
           user == User(Len(users) + 1, req[w].email, req[w].name,
                        hash_password(req[w].password), verification_token)
       IN  /\ users' = Append(users, user)
           /\ nextTok' = nextTok + 1
           /\ mailing' = mailing \cup send_verification_email(user.email, verification_token, Thread)
           /\ Finish(w, Ok("Registration successful. Check your email!", {user.email}))
    /\ UNCHANGED <<sessions, now, media, nextMid, cfg>>

\* how an SMTP exchange ends: line 192, or the exception caught at line 194
MailOutcomes == {"sent", "failed"}

\* mutant: a failed mail removes the user it was for
MailOutcomeRollsBack(coll, m, outcome) ==
    IF outcome = "failed" THEN delete_one(coll, [verification_token |-> m.token])
    ELSE coll

\* lines 192-195: either outcome is logged; the store is not touched
MailOutcome(coll, m, outcome) == coll

\* lines 167-195 run by the thread of line 199 come to an end
MailThreadEnds(m, outcome) ==
    /\ m \in mailing
    /\ m.by = Thread
    /\ mailing' = mailing \ {m}
    /\ users' = MailOutcome(users, m, outcome)
    /\ UNCHANGED <<nextTok, sessions, now, media, nextMid, cfg, req>>

\* ----------------------------------------------------------- verify_email
ByToken(token) == find_one(users, [verification_token |-> token])

\* mutant: the token is not cleared
VerifyUpdateKeepsToken(coll, token) ==
    update_one(coll, [verification_token |-> token], [is_verified |-> TRUE])

\* lines 232-235: update_one({"verification_token": token}, {"$set": ...})
VerifyUpdate(coll, token) ==
    update_one(coll, [verification_token |-> token],
               [is_verified |-> TRUE, verification_token |-> NoToken])

\* the tokens a client can present: those issued so far, and one never issued
KnownTokens == (1..(nextTok - 1)) \cup {BogusToken}

\* line 229: user_doc = await db.users.find_one({"verification_token": token})
VerifyFind(w, token) ==
    /\ CanStart(w)
    /\ req' = [req EXCEPT ![w] =
                 [Blank EXCEPT !.op = "verify_email", !.pc = "verify_update", !.email = NoEmail,
                     !.password = "", !.name = "", !.token = token,
                     !.doc = ByToken(token)]]
    /\ UNCHANGED <<users, nextTok, mailing, sessions, now, media, nextMid, cfg>>

\* lines 230-231
VerifyRejected(w) ==
    /\ req[w].pc = "verify_update"
    /\ req[w].doc = NoDoc
    /\ Finish(w, InvalidOrExpiredToken)
    /\ UNCHANGED <<users, nextTok, mailing, sessions, now, media, nextMid, cfg>>

\* lines 232-236
VerifyEmail(w) ==
    /\ req[w].pc = "verify_update"
    /\ req[w].doc # NoDoc
    /\ users' = VerifyUpdate(users, req[w].token)
    /\ Finish(w, Ok("Email verified successfully!", {}))
    /\ UNCHANGED <<nextTok, mailing, sessions, now, media, nextMid, cfg>>

\* ---------------------------------------------------- resend_verification
\* mutant: a token already stored is sent again instead of being replaced
ResendUpdateKeepsOld(coll, email, new_token) ==
    IF find_one(coll, [email |-> email]).verification_token = NoToken
    THEN update_one(coll, [email |-> email], [verification_token |-> new_token])
    ELSE coll

\* mutant: storing a new token makes the record unverified again
ResendUpdateUnverifies(coll, email, new_token) ==
    update_one(coll, [email |-> email],
               [verification_token |-> new_token, is_verified |-> FALSE])

\* lines 347-350: update_one({"email": user_email}, {"$set": {"verification_token": ...}})
ResendUpdate(coll, email, new_token) ==
    update_one(coll, [email |-> email], [verification_token |-> new_token])

\* lines 330-332
ResendNoEmail(w) ==
    /\ CanStart(w)
    /\ req' = [req EXCEPT ![w] = Idle(MissingEmail, "resend_verification")]
    /\ UNCHANGED <<users, nextTok, mailing, sessions, now, media, nextMid, cfg>>

\* line 335: user_doc = await db.users.find_one({"email": user_email})
ResendFind(w, email) ==
    /\ CanStart(w)
    /\ nextTok + Pending({"signup_insert", "resend_update"}) <= MaxTok
    /\ req' = [req EXCEPT ![w] =
                 [Blank EXCEPT !.op = "resend_verification", !.pc = "resend_update", !.email = email,
                     !.password = "", !.name = "", !.token = NoToken,
                     !.doc = ByEmail(email)]]
    /\ UNCHANGED <<users, nextTok, mailing, sessions, now, media, nextMid, cfg>>

\* lines 336-337
ResendNotFound(w) ==
    /\ req[w].pc = "resend_update"
    /\ req[w].doc = NoDoc
    /\ Finish(w, UserNotFound404)
    /\ UNCHANGED <<users, nextTok, mailing, sessions, now, media, nextMid, cfg>>

\* mutant: the check of is_verified is left out
AlreadyVerifiedNever(user_doc) == FALSE

\* line 340: user_doc.get("is_verified")
AlreadyVerified(user_doc) == user_doc.is_verified

\* lines 340-341
ResendAlreadyVerified(w) ==
    /\ req[w].pc = "resend_update"
    /\ req[w].doc # NoDoc
    /\ AlreadyVerified(req[w].doc)
    /\ Finish(w, Ok("Email is already verified", {}))
    /\ UNCHANGED <<users, nextTok, mailing, sessions, now, media, nextMid, cfg>>

\* lines 344-353: the new token is stored, then the mail is sent in the handler
ResendStore(w) ==
    /\ req[w].pc = "resend_update"
    /\ req[w].doc # NoDoc
    /\ ~AlreadyVerified(req[w].doc)
    /\ LET new_token == nextTok
       IN  /\ users' = ResendUpdate(users, req[w].email, new_token)
           /\ nextTok' = nextTok + 1
           /\ mailing' = mailing \cup send_verification_email(req[w].email, new_token, w)
           /\ req' = [req EXCEPT ![w].pc = "resend_send", ![w].token = new_token]
    /\ UNCHANGED <<sessions, now, media, nextMid, cfg>>

\* lines 188-195 in the handler: the SMTP exchange of worker w comes to an end,
\* which takes the mail server's answers (line 188 sets no timeout)
ResendMailEnds(w, outcome) ==
    /\ req[w].pc = "resend_send"
    /\ \E m \in mailing :
          /\ m.by = w
          /\ mailing' = mailing \ {m}
          /\ users' = MailOutcome(users, m, outcome)
    /\ UNCHANGED <<nextTok, sessions, now, media, nextMid, cfg, req>>

\* lines 353-355: send_verification_email has returned (sent, failed or skipped)
ResendSent(w) ==
    /\ req[w].pc = "resend_send"
    /\ \A m \in mailing : m.by # w
    /\ Finish(w, Ok("Verification email resent successfully", {}))
    /\ UNCHANGED <<users, nextTok, mailing, sessions, now, media, nextMid, cfg>>

\* ------------------------------------------------------------------ login
\* lines 137-141: exp is the expiry in whole seconds; iat is not part of the
\* payload, it records the tick of issue
create_access_token(sub, email) ==
    LET expire == now + ACCESS_TOKEN_EXPIRE_MINUTES * SecondsPerMinute * TicksPerSecond
    IN  [sub |-> sub, email |-> email, exp |-> expire \div TicksPerSecond,
         iat |-> now, signed |-> TRUE]

\* mutant: is_verified is not checked
LoginOutcomeSkipsVerified(doc, password) ==
    IF doc = NoDoc THEN InvalidCredentials
    ELSE IF ~verify_password(password, doc.hashed_password) THEN InvalidCredentials
    ELSE Ok("bearer", {[access_token |-> create_access_token(doc.id, doc.email),
                        user |-> UserResponse(doc)]})

\* mutant: an unknown email is reported as such
LoginOutcomeUnknownUser(doc, password) ==
    IF doc = NoDoc THEN Http(401, "User not found")
    ELSE IF ~verify_password(password, doc.hashed_password) THEN InvalidCredentials
    ELSE IF ~doc.is_verified THEN EmailNotVerified
    ELSE Ok("bearer", {[access_token |-> create_access_token(doc.id, doc.email),
                        user |-> UserResponse(doc)]})

\* mutant: is_verified is checked before the password
LoginOutcomeVerifiedFirst(doc, password) ==
    IF doc = NoDoc THEN InvalidCredentials
    ELSE IF ~doc.is_verified THEN EmailNotVerified
    ELSE IF ~verify_password(password, doc.hashed_password) THEN InvalidCredentials
    ELSE Ok("bearer", {[access_token |-> create_access_token(doc.id, doc.email),
                        user |-> UserResponse(doc)]})

\* lines 241-254: the response of login for the document read and the password given
LoginOutcome(doc, password) ==
    IF doc = NoDoc THEN InvalidCredentials
    ELSE IF ~verify_password(password, doc.hashed_password) THEN InvalidCredentials
    ELSE IF ~doc.is_verified THEN EmailNotVerified
    ELSE Ok("bearer", {[access_token |-> create_access_token(doc.id, doc.email),
                        user |-> UserResponse(doc)]})

\* the clients keep the tokens they are sent, up to MaxSessions of them
Keep(held, issued) ==
    IF Cardinality(held \cup issued) <= MaxSessions /\ now <= MaxIssueTick
    THEN held \cup issued
    ELSE held

\* line 240: user_doc = await db.users.find_one({"email": ...})
LoginFind(w, email, password) ==
    /\ CanStart(w)
    /\ req' = [req EXCEPT ![w] =
                 [Blank EXCEPT !.op = "login", !.pc = "login_check", !.email = email,
                     !.password = password, !.name = "", !.token = NoToken,
                     !.doc = ByEmail(email)]]
    /\ UNCHANGED <<users, nextTok, mailing, sessions, now, media, nextMid, cfg>>

\* lines 241-254
LoginCheck(w) ==
    /\ req[w].pc = "login_check"
    /\ LET resp == LoginOutcome(req[w].doc, req[w].password)
           issued == {d.access_token : d \in resp.data}
       IN  /\ sessions' = Keep(sessions, issued)
           /\ Finish(w, resp)
    /\ UNCHANGED <<users, nextTok, mailing, now, media, nextMid, cfg>>

\* ------------------------------------------------------- get_current_user
\* the tokens a client can present
Presentable == sessions \cup {Garbage}

\* mutant: the expiry is not verified
jwt_decode_no_exp(token) == IF ~token.signed THEN InvalidToken ELSE NoResp

\* line 146, jwt.decode: the signature is checked first, then exp against the
\* clock in seconds: a token is expired from the instant exp on
jwt_decode(token) ==
    IF ~token.signed THEN InvalidToken
    ELSE IF token.exp * TicksPerSecond <= now THEN TokenExpired
    ELSE NoResp

\* lines 143-160: the current user, or the 401 raised
get_current_user(token) ==
    LET failure == jwt_decode(token)
        user_doc == find_one(users, [id |-> token.sub])
    IN  IF failure # NoResp THEN [error |-> failure, user |-> NoDoc]
        ELSE IF token.sub = 0 THEN [error |-> InvalidTokenPayload, user |-> NoDoc]
        ELSE IF user_doc = NoDoc THEN [error |-> UserNotFound, user |-> NoDoc]
        ELSE [error |-> NoResp, user |-> user_doc]

\* Depends(get_current_user), then the handler `op` goes on at `pc`
Authenticate(w, op, pc, token, mid, body) ==
    LET auth == get_current_user(token)
    IN  req' = [req EXCEPT ![w] =
                  IF auth.error # NoResp
                  THEN [Blank EXCEPT !.op = op, !.bearer = token, !.resp = auth.error]
                  ELSE [Blank EXCEPT !.op = op, !.pc = pc, !.doc = auth.user,
                                     !.bearer = token, !.mid = mid, !.body = body]]

\* lines 256-258
GetMe(w, token) ==
    /\ CanStart(w)
    /\ LET auth == get_current_user(token)
       IN  req' = [req EXCEPT ![w] =
                     [Blank EXCEPT !.op = "get_me", !.bearer = token,
                                   !.resp = IF auth.error # NoResp THEN auth.error
                                            ELSE Ok("me", {UserResponse(auth.user)})]]
    /\ UNCHANGED <<users, nextTok, mailing, sessions, now, media, nextMid, cfg>>

\* the tick before the earliest expiry of a session token issued from tick 0 on
Eve == ACCESS_TOKEN_EXPIRE_MINUTES * SecondsPerMinute * TicksPerSecond - 1

\* the clock is followed tick by tick while session tokens are kept and again
\* from the eve of their expiry; nothing reads it in between
Tick ==
    /\ now < horizon
    /\ now <= MaxIssueTick \/ now >= Eve
    /\ now' = now + 1
    /\ UNCHANGED <<users, nextTok, mailing, sessions, media, nextMid, cfg, req>>

Sleep ==
    /\ now > MaxIssueTick
    /\ now < Eve
    /\ Eve < horizon
    /\ now' = Eve
    /\ UNCHANGED <<users, nextTok, mailing, sessions, media, nextMid, cfg, req>>

\* ------------------------------------------------------------------ media
\* response validation against MediaItem (lines 104-114): title, type and
\* status are strings
ValidMediaItem(item) ==
    item.title # None /\ item.type # None /\ item.status # None

Owned(user_id) == {media[i] : i \in {j \in 1..Len(media) : media[j].user_id = user_id}}

\* mutant: the owner is left out of the query
AnyOwner(media_id, user_id) == [id |-> media_id]

\* lines 282, 288, 297: {"id": media_id, "user_id": current_user.id}
OwnItem(media_id, user_id) == [id |-> media_id, user_id |-> user_id]

\* lines 261-263
CreateMediaAuth(w, token, data) ==
    /\ CanStart(w)
    /\ nextMid + Pending({"create_insert"}) <= MaxMedia
    /\ Authenticate(w, "create_media", "create_insert", token, 0, data)
    /\ UNCHANGED <<users, nextTok, mailing, sessions, now, media, nextMid, cfg>>

\* lines 263-268
CreateMediaInsert(w) ==
    /\ req[w].pc = "create_insert"
    /\ LET item == MediaItem(nextMid, req[w].doc.id, req[w].body, now)
       IN  /\ media' = Append(media, item)
           /\ nextMid' = nextMid + 1
           /\ Finish(w, Ok("media", {item}))
    /\ UNCHANGED <<users, nextTok, mailing, sessions, now, cfg>>

\* lines 270-271
GetMediaAuth(w, token) ==
    /\ CanStart(w)
    /\ Authenticate(w, "get_media", "list_find", token, 0, NoBody)
    /\ UNCHANGED <<users, nextTok, mailing, sessions, now, media, nextMid, cfg>>

\* lines 272-278: find({"user_id": current_user.id}); the list is validated
GetMediaFind(w) ==
    /\ req[w].pc = "list_find"
    /\ LET items == Owned(req[w].doc.id)
       IN  Finish(w, IF \A item \in items : ValidMediaItem(item)
                     THEN Ok("media list", items)
                     ELSE InternalServerError)
    /\ UNCHANGED <<users, nextTok, mailing, sessions, now, media, nextMid, cfg>>

\* lines 280-281
UpdateMediaAuth(w, token, media_id, media_data) ==
    /\ CanStart(w)
    /\ Authenticate(w, "update_media", "update_find", token, media_id, media_data)
    /\ UNCHANGED <<users, nextTok, mailing, sessions, now, media, nextMid, cfg>>

\* lines 282-284: find_one({"id": media_id, "user_id": current_user.id})
UpdateMediaFind(w) ==
    /\ req[w].pc = "update_find"
    /\ IF FirstIndex(media, OwnItem(req[w].mid, req[w].doc.id)) = 0
       THEN Finish(w, MediaNotFound)
       ELSE req' = [req EXCEPT ![w].pc = "update_set"]
    /\ UNCHANGED <<users, nextTok, mailing, sessions, now, media, nextMid, cfg>>

\* mutant: model_dump() without exclude_unset, the defaults are written too
UpdateDataAll(media_data) ==
    [f \in MediaFields \cup {"updated_at"} |->
        IF f = "updated_at" THEN now ELSE media_data[f]]

\* line 286-287: model_dump(exclude_unset=True), and updated_at
UpdateData(media_data) ==
    [f \in media_data.set \cup {"updated_at"} |->
        IF f = "updated_at" THEN now ELSE media_data[f]]

\* line 288: update_one({"id": media_id, "user_id": current_user.id}, {"$set": ...})
UpdateMediaSet(w) ==
    /\ req[w].pc = "update_set"
    /\ media' = update_one(media, OwnItem(req[w].mid, req[w].doc.id),
                           UpdateData(req[w].body))
    /\ req' = [req EXCEPT ![w].pc = "update_read"]
    /\ UNCHANGED <<users, nextTok, mailing, sessions, now, nextMid, cfg>>

\* lines 290-293: find_one({"id": media_id}); None and an invalid item both raise
UpdateMediaRead(w) ==
    /\ req[w].pc = "update_read"
    /\ LET i == FirstIndex(media, [id |-> req[w].mid])
       IN  Finish(w, IF i = 0 THEN InternalServerError
                     ELSE IF ~ValidMediaItem(media[i]) THEN InternalServerError
                     ELSE Ok("media", {media[i]}))
    /\ UNCHANGED <<users, nextTok, mailing, sessions, now, media, nextMid, cfg>>

\* lines 295-296
DeleteMediaAuth(w, token, media_id) ==
    /\ CanStart(w)
    /\ Authenticate(w, "delete_media", "delete_one", token, media_id, NoBody)
    /\ UNCHANGED <<users, nextTok, mailing, sessions, now, media, nextMid, cfg>>

\* lines 297-300
DeleteMedia(w) ==
    /\ req[w].pc = "delete_one"
    /\ LET query == OwnItem(req[w].mid, req[w].doc.id)
       IN  /\ media' = delete_one(media, query)
           /\ Finish(w, IF FirstIndex(media, query) = 0 THEN MediaNotFound
                        ELSE Ok("Media deleted successfully", {}))
    /\ UNCHANGED <<users, nextTok, mailing, sessions, now, nextMid, cfg>>

\* the bodies of POST /media and PUT /media/{id}
CreateBodies == {MediaItemCreate("Dune", "book", "plan", 0, 0)}
UpdateBodies ==
    {MediaItemUpdate({"status", "current"}, None, "done", 1),
     MediaItemUpdate({"title"}, None, None, 0),
     MediaItemUpdate({}, None, None, 0)}
MediaIds == 1..MaxMedia

Next ==
    \/ \E w \in Workers, e \in Emails, p \in Passwords, n \in Names : SignupFind(w, e, p, n)
    \/ \E w \in Workers : SignupRejected(w)
    \/ \E w \in Workers : SignupInsert(w)
    \/ \E w \in Workers, t \in KnownTokens : VerifyFind(w, t)
    \/ \E w \in Workers : VerifyRejected(w)
    \/ \E w \in Workers : VerifyEmail(w)
    \/ \E w \in Workers : ResendNoEmail(w)
    \/ \E w \in Workers, e \in Emails : ResendFind(w, e)
    \/ \E w \in Workers : ResendNotFound(w)
    \/ \E w \in Workers : ResendAlreadyVerified(w)
    \/ \E w \in Workers : ResendStore(w)
    \/ \E w \in Workers : ResendSent(w)
    \/ \E w \in Workers, e \in Emails, p \in Passwords : LoginFind(w, e, p)
    \/ \E w \in Workers : LoginCheck(w)

Spec == Init /\ [][Next]_vars

\* one request at a time: the same handlers, never interleaved
InitSeq ==
    /\ users = <<>>
    /\ nextTok = 1
    /\ mailing = {}
    /\ sessions = {}
    /\ now = 0
    /\ limit = 1
    /\ smtp = FALSE
    /\ horizon = 0
    /\ media = <<>>
    /\ nextMid = 1
    /\ req = [w \in Workers |-> Idle(NoResp, "none")]

SpecSeq == InitSeq /\ [][Next]_vars

\* two verified users who have logged in, and their media
Verified(id, email, name, password) ==
    [User(id, email, name, hash_password(password), NoToken) EXCEPT !.is_verified = TRUE]

InitMedia ==
    /\ users = <<Verified(1, "a@x.com", "Alice", "pw1"), Verified(2, "b@x.com", "Bob", "pw1")>>
    /\ nextTok = 3
    /\ mailing = {}
    /\ now = 0
    /\ sessions = {create_access_token(1, "a@x.com"), create_access_token(2, "b@x.com")}
    /\ limit = Cardinality(Workers)
    /\ smtp = FALSE
    /\ horizon = 1
    /\ media = <<>>
    /\ nextMid = 1
    /\ req = [w \in Workers |-> Idle(NoResp, "none")]

NextMedia ==
    \/ Tick
    \/ \E w \in Workers, t \in sessions, d \in CreateBodies : CreateMediaAuth(w, t, d)
    \/ \E w \in Workers : CreateMediaInsert(w)
    \/ \E w \in Workers, t \in sessions : GetMediaAuth(w, t)
    \/ \E w \in Workers : GetMediaFind(w)
    \/ \E w \in Workers, t \in sessions, i \in MediaIds, d \in UpdateBodies :
          UpdateMediaAuth(w, t, i, d)
    \/ \E w \in Workers : UpdateMediaFind(w)
    \/ \E w \in Workers : UpdateMediaSet(w)
    \/ \E w \in Workers : UpdateMediaRead(w)
    \/ \E w \in Workers, t \in sessions, i \in MediaIds : DeleteMediaAuth(w, t, i)
    \/ \E w \in Workers : DeleteMedia(w)

SpecMedia == InitMedia /\ [][NextMedia]_vars

\* a verified user; the clock runs past the expiry of the
\* session tokens issued in the first ticks
InitSession ==
    /\ users = <<Verified(1, "a@x.com", "Alice", "pw1")>>
    /\ nextTok = 2
    /\ mailing = {}
    /\ now = 0
    /\ sessions = {}
    /\ limit = Cardinality(Workers)
    /\ smtp = FALSE
    /\ horizon = (ACCESS_TOKEN_EXPIRE_MINUTES * SecondsPerMinute + 1) * TicksPerSecond
                    + MaxIssueTick
    /\ media = <<>>
    /\ nextMid = 1
    /\ req = [w \in Workers |-> Idle(NoResp, "none")]

NextSession ==
    \/ Tick
    \/ Sleep
    \/ \E w \in Workers, e \in Emails, p \in Passwords : LoginFind(w, e, p)
    \/ \E w \in Workers : LoginCheck(w)
    \/ \E w \in Workers, t \in Presentable : GetMe(w, t)
    \/ \E w \in Workers, t \in Presentable : GetMediaAuth(w, t)
    \/ \E w \in Workers : GetMediaFind(w)

SpecSession == InitSession /\ [][NextSession]_vars

\* every handler, interleaved: registration, login and the media of the users
\* that have logged in
NextAll ==
    \/ Next
    \/ \E w \in Workers, t \in sessions, d \in CreateBodies : CreateMediaAuth(w, t, d)
    \/ \E w \in Workers : CreateMediaInsert(w)
    \/ \E w \in Workers, t \in sessions : GetMediaAuth(w, t)
    \/ \E w \in Workers : GetMediaFind(w)
    \/ \E w \in Workers, t \in sessions, i \in MediaIds, d \in UpdateBodies :
          UpdateMediaAuth(w, t, i, d)
    \/ \E w \in Workers : UpdateMediaFind(w)
    \/ \E w \in Workers : UpdateMediaSet(w)
    \/ \E w \in Workers : UpdateMediaRead(w)
    \/ \E w \in Workers, t \in sessions, i \in MediaIds : DeleteMediaAuth(w, t, i)
    \/ \E w \in Workers : DeleteMedia(w)

SpecAll == Init /\ [][NextAll]_vars

\* the mail credentials are set.  resend_verification calls
\* send_verification_email without await (line 353): while its SMTP exchange is
\* under way the event loop runs no other handler; the thread of line 199 runs
\* beside the loop
Blocked == \E m \in mailing : m.by # Thread

InitMail ==
    /\ users = <<>>
    /\ nextTok = 1
    /\ mailing = {}
    /\ sessions = {}
    /\ now = 0
    /\ limit = Cardinality(Workers)
    /\ smtp = TRUE
    /\ horizon = 0
    /\ media = <<>>
    /\ nextMid = 1
    /\ req = [w \in Workers |-> Idle(NoResp, "none")]

\* one step of the event loop: a handler runs up to its next await
LoopStep(w) ==
    \/ ~Blocked /\ \E e \in Emails, p \in Passwords, n \in Names : SignupFind(w, e, p, n)
    \/ ~Blocked /\ SignupRejected(w)
    \/ ~Blocked /\ SignupInsert(w)
    \/ ~Blocked /\ \E t \in KnownTokens : VerifyFind(w, t)
    \/ ~Blocked /\ VerifyRejected(w)
    \/ ~Blocked /\ VerifyEmail(w)
    \/ ~Blocked /\ ResendNoEmail(w)
    \/ ~Blocked /\ \E e \in Emails : ResendFind(w, e)
    \/ ~Blocked /\ ResendNotFound(w)
    \/ ~Blocked /\ ResendAlreadyVerified(w)
    \/ ~Blocked /\ ResendStore(w)
    \/ ~Blocked /\ ResendSent(w)

NextMail ==
    \/ \E m \in mailing, o \in MailOutcomes : MailThreadEnds(m, o)
    \/ \E w \in Workers, o \in MailOutcomes : ResendMailEnds(w, o)
    \/ \E w \in Workers : LoopStep(w)

SpecMail == InitMail /\ [][NextMail]_vars

\* the event loop runs every handler that is ready, and the store answers;
\* nothing makes the mail server answer, and line 188 sets no timeout on it
SpecMailLive ==
    /\ InitMail
    /\ [][NextMail]_vars
    /\ \A w \in Workers : WF_vars(LoopStep(w))

\* ------------------------------------------------------------- vocabulary
Stored == 1..Len(users)
HeldIn(coll, t) == \E i \in 1..Len(coll) : coll[i].verification_token = t
Held(t) == HeldIn(users, t)
Issued == 1..(nextTok - 1)
Arrives(w, pc) == req[w].pc = "done" /\ req'[w].pc = pc
Answers(w, pc) == req[w].pc = pc /\ req'[w].pc = "done"
Leaves(w, pc) == req[w].pc = pc /\ req'[w] # req[w]

\* ---------------------------------------------------------------- C1
\* C1: no two User records have the same email, under any interleaving of
\* Signup requests (the loser of a race gets DuplicateEmail, nothing is stored).
EmailUnique ==
    \A i, j \in Stored : users[i].email = users[j].email => i = j

\* ---------------------------------------------------------------- C2
\* C2: for every User record exactly one of is_verified and "holds a
\* verification token" is true, under any interleaving of Signup, VerifyEmail
\* and ResendVerification.
VerifiedXorToken ==
    \A i \in Stored : users[i].is_verified # (users[i].verification_token # NoToken)

TokenSingleUse ==
    [][/\ \A w \in Workers :
            /\ (Answers(w, "verify_update") /\ req'[w].resp.status = 200)
               => ~HeldIn(users', req[w].token)
            /\ (Arrives(w, "verify_update") /\ ~HeldIn(users, req'[w].token))
               => req'[w].doc = NoDoc
            /\ (Leaves(w, "verify_update") /\ req[w].doc = NoDoc)
               => /\ req'[w].pc = "done"
                  /\ req'[w].resp = InvalidOrExpiredToken
                  /\ users' = users
       /\ \A t \in Issued : ~Held(t) => ~HeldIn(users', t)]_vars

\* the only token ever issued was verified, and a later VerifyEmail of it found nothing
TokenReplayed ==
    /\ nextTok = 2
    /\ \E w, v \in Workers :
          /\ req[w].pc = "done"
          /\ req[w].resp = Ok("Email verified successfully!", {})
          /\ req[v].pc = "verify_update"
          /\ req[v].token = 1
          /\ req[v].doc = NoDoc

\* ---------------------------------------------------------------- C5
\* C5: a ResendVerification that stores its token gives the record a token
\* different from the one it held, which no record holds afterwards (so, by the
\* rule that unheld tokens stay unheld and are rejected without effect, a later
\* VerifyEmail of the earlier token fails and leaves the user unverified); a
\* record becomes verified only by a VerifyEmail of the token it holds.
ResendInvalidatesOld ==
    [][/\ \A w \in Workers :
            /\ (req[w].pc = "resend_update" /\ req'[w].pc = "resend_send")
               => LET i == FirstIndex(users, [email |-> req[w].email])
                      old == users[i].verification_token
                  IN  /\ i # 0
                      /\ users'[i].verification_token = req'[w].token
                      /\ req'[w].token # NoToken
                      /\ req'[w].token # old
                      /\ ~(req'[w].token \in Issued)
                      /\ old # NoToken => ~HeldIn(users', old)
                      /\ users'[i].is_verified = users[i].is_verified
            /\ (Arrives(w, "verify_update") /\ ~HeldIn(users, req'[w].token))
               => req'[w].doc = NoDoc /\ users' = users
            /\ (Leaves(w, "verify_update") /\ req[w].doc = NoDoc)
               => req'[w].resp = InvalidOrExpiredToken /\ users' = users
       /\ \A t \in Issued : ~Held(t) => ~HeldIn(users', t)
       /\ \A i \in Stored :
            (~users[i].is_verified /\ users'[i].is_verified)
            => \E w \in Workers :
                  /\ Answers(w, "verify_update")
                  /\ req[w].token = users[i].verification_token
                  /\ req[w].token # NoToken]_vars

\* one user, still unverified after a resend; a VerifyEmail of the first token found nothing
OldTokenDead ==
    /\ Len(users) = 1
    /\ ~users[1].is_verified
    /\ users[1].verification_token = 2
    /\ \E w, v \in Workers :
          /\ req[w].pc = "done"
          /\ req[w].resp = Ok("Verification email resent successfully", {})
          /\ req[v].pc = "verify_update"
          /\ req[v].token = 1
          /\ req[v].doc = NoDoc

\* ---------------------------------------------------------------- C6
\* C6: a Login that arrives with the email and password of a stored user whose
\* is_verified is false reads that user; a Login that read its user as
\* unverified issues no session token, and with the right password it answers
\* EmailNotVerified (403).
UnverifiedNeverLogsIn ==
    [][\A w \in Workers :
          /\ Arrives(w, "login_check")
             => \A i \in Stored :
                   (users[i].email = req'[w].email
                       /\ \A j \in 1..(i - 1) : users[j].email # users[i].email)
                   => req'[w].doc = users[i]
          /\ (Answers(w, "login_check") /\ req[w].doc # NoDoc /\ ~req[w].doc.is_verified)
             => /\ req'[w].resp.data = {}
                /\ req'[w].resp.status # 200
                /\ sessions' = sessions
                /\ verify_password(req[w].password, req[w].doc.hashed_password)
                   => req'[w].resp = EmailNotVerified /\ req'[w].resp.status = 403]_vars

EmailNotVerifiedSeen ==
    \E w \in Workers : req[w].pc = "done" /\ req[w].resp = EmailNotVerified

\* ---------------------------------------------------------------- C7
\* C7: a Login with a wrong password for a user that exists, verified or not,
\* and a Login whose email belongs to no user get the same response: status
\* 401 and the same detail.
SameErrorForUnknownAndWrong ==
    [][\A w \in Workers :
          (Answers(w, "login_check")
              /\ (req[w].doc = NoDoc
                  \/ ~verify_password(req[w].password, req[w].doc.hashed_password)))
          => req'[w].resp = [status |-> 401, detail |-> "Invalid email or password",
                             data |-> {}]]_vars

\* one Login for an unknown email was answered 401 while a Login with a wrong
\* password for a verified user is about to be answered
UnknownAndWrongSeen ==
    \E w, v \in Workers :
       /\ req[w].pc = "done"
       /\ req[w].resp = InvalidCredentials
       /\ users # <<>>
       /\ \A i \in Stored : users[i].email # "b@x.com"
       /\ req[v].pc = "login_check"
       /\ req[v].doc # NoDoc
       /\ req[v].doc.is_verified
       /\ ~verify_password(req[v].password, req[v].doc.hashed_password)

\* ---------------------------------------------------------------- C9
\* C9: with one request at a time: a Signup(e, p, n) that succeeds appends an
\* unverified user with email e, a fresh token and the hash of p, no other
\* user having email e; a VerifyEmail of a held token that succeeds leaves its
\* holder verified with the token cleared and every other record as it was; a
\* Login(e, p) for a verified user whose password is p succeeds with a session
\* token whose subject is that user's id, and a Login with another password
\* than the user's answers InvalidCredentials (401).
EndToEnd ==
    [][\A w \in Workers :
          /\ (Answers(w, "signup_insert") /\ req'[w].resp.status = 200)
             => /\ Len(users') = Len(users) + 1
                /\ SubSeq(users', 1, Len(users)) = users
                /\ LET u == users'[Len(users')]
                   IN  /\ u.email = req[w].email
                       /\ u.name = req[w].name
                       /\ ~u.is_verified
                       /\ u.verification_token # NoToken
                       /\ ~(u.verification_token \in Issued)
                       /\ u.hashed_password = hash_password(req[w].password)
                       /\ \A i \in Stored :
                             users[i].email # u.email /\ users[i].id # u.id
                /\ req'[w].resp.data = {req[w].email}
          /\ (Answers(w, "verify_update") /\ req'[w].resp.status = 200)
             => \E i \in Stored :
                   /\ users[i].verification_token = req[w].token
                   /\ users'[i] = [users[i] EXCEPT !.is_verified = TRUE,
                                                   !.verification_token = NoToken]
                   /\ \A j \in Stored \ {i} : users'[j] = users[j]
          /\ Answers(w, "login_check")
             => \A i \in Stored :
                   users[i].email = req[w].email
                   => /\ (users[i].is_verified
                             /\ users[i].hashed_password = hash_password(req[w].password))
                         => /\ req'[w].resp.status = 200
                            /\ \E d \in req'[w].resp.data :
                                  /\ d.access_token.sub = users[i].id
                                  /\ d.access_token.email = users[i].email
                                  /\ d.user = UserResponse(users[i])
                      /\ (\E p \in Passwords :
                             /\ p # req[w].password
                             /\ users[i].hashed_password = hash_password(p))
                         => req'[w].resp = InvalidCredentials]_vars

\* Alice signed up, verified her email and logged in
EndToEndSeen ==
    /\ users = <<[id |-> 1, email |-> "a@x.com", name |-> "Alice",
                  hashed_password |-> hash_password("pw1"), is_verified |-> TRUE,
                  verification_token |-> NoToken]>>
    /\ \E w \in Workers :
          /\ req[w].pc = "done"
          /\ req[w].resp.detail = "bearer"
          /\ \E d \in req[w].resp.data : d.access_token.sub = 1

\* ---------------------------------------------------------------- C8
Protected == {"get_me", "create_media", "get_media", "update_media", "delete_media"}

\* a protected request arrives at worker w; req'[w].bearer is the token it presents
Presents(w) == req[w].pc = "done" /\ req'[w] # req[w] /\ req'[w].op \in Protected

Admitted(w) == req'[w].pc # "done" \/ req'[w].resp.status # 401

TtlTicks == ACCESS_TOKEN_EXPIRE_MINUTES * SecondsPerMinute * TicksPerSecond

\* C8 as stated: a session token issued at tick iat is rejected with TokenExpired
\* (401) when presented later than iat + TTL, and admitted when presented
\* before iat + TTL if its subject exists, whatever the protected operation.
ExpiresAtIssuePlusTtl ==
    [][\A w \in Workers :
          (Presents(w) /\ req'[w].bearer.signed)
          => LET s == req'[w].bearer
             IN  /\ now > s.iat + TtlTicks
                    => req'[w].pc = "done" /\ req'[w].resp = TokenExpired
                 /\ (now < s.iat + TtlTicks /\ \E i \in Stored : users[i].id = s.sub)
                    => Admitted(w)]_vars

\* C8 as amended: rejected with TokenExpired (401) when presented later than
\* iat + TTL; admitted when presented before the whole second the expiry was
\* truncated to (the second at or before iat + TTL) if its subject exists.
ExpiresAtWholeSecond ==
    [][\A w \in Workers :
          (Presents(w) /\ req'[w].bearer.signed)
          => LET s == req'[w].bearer
                 issued_second == s.iat \div TicksPerSecond
             IN  /\ now > s.iat + TtlTicks
                    => /\ req'[w].pc = "done"
                       /\ req'[w].resp = TokenExpired
                       /\ req'[w].resp.status = 401
                 /\ (now < issued_second * TicksPerSecond + TtlTicks
                        /\ \E i \in Stored : users[i].id = s.sub)
                    => /\ Admitted(w)
                       /\ req'[w].pc # "done" => req'[w].doc.id = s.sub]_vars

\* a token issued between two whole seconds was admitted, and later rejected as expired
ExpirySeen ==
    \E w, v \in Workers :
       /\ req[w].op = "get_me"
       /\ req[w].resp.status = 200
       /\ req[v].op \in Protected
       /\ req[v].resp = TokenExpired
       /\ req[v].bearer = req[w].bearer
       /\ req[v].bearer.iat % TicksPerSecond # 0
       /\ now > req[v].bearer.iat + TtlTicks

\* ---------------------------------------------------------------- C10
\* C10: a PUT or DELETE on the id of an item owned by another user than the
\* one authenticated answers 404 and leaves the media unchanged; no step of a
\* request changes or removes an item its user does not own; a request is
\* authenticated as the subject of its token; GET /media and PUT return only
\* items of the authenticated user.
OwnershipIsolation ==
    [][\A w \in Workers :
          /\ ((Leaves(w, "update_find") \/ Leaves(w, "delete_one"))
                 /\ \E i \in 1..Len(media) :
                       media[i].id = req[w].mid /\ media[i].user_id # req[w].doc.id)
             => /\ req'[w].pc = "done"
                /\ req'[w].resp = MediaNotFound
                /\ req'[w].resp.status = 404
                /\ media' = media
          /\ (req[w].pc # "done" /\ req'[w] # req[w])
             => \A i \in 1..Len(media) :
                   media[i].user_id # req[w].doc.id
                   => \E j \in 1..Len(media') : media'[j] = media[i]
          /\ (Presents(w) /\ req'[w].pc # "done")
             => req'[w].doc.id = req'[w].bearer.sub
          /\ (Answers(w, "list_find") \/ Answers(w, "update_read"))
             => \A item \in req'[w].resp.data : item.user_id = req[w].doc.id]_vars

\* Bob's DELETE was answered 404 and his PUT on Alice's item is about to be
CrossUserRefused ==
    /\ Len(media) = 1
    /\ media[1].user_id = 1
    /\ \E w, v \in Workers :
          /\ req[w].pc = "done"
          /\ req[w].op = "delete_media"
          /\ req[w].bearer.sub = 2
          /\ req[w].resp = MediaNotFound
          /\ req[v].pc = "update_find"
          /\ req[v].doc.id = 2
          /\ req[v].mid = media[1].id

\* ---------------------------------------------------------------- C11
SignupSucceeded(email) == Ok("Registration successful. Check your email!", {email})

\* C11: the mail of Signup is best-effort.  A Signup that found no user with
\* its email answers the success acknowledgement in the step that stores the
\* new unverified user with its token, while the mail it started is still being
\* sent by the thread; when the thread ends, with the mail sent or failed, no
\* user record and no request or response changes; and no step ever removes a
\* user record or changes its id or email.
SignupIsBestEffort ==
    [][/\ \A w \in Workers :
            (Leaves(w, "signup_insert") /\ req[w].doc = NoDoc)
            => /\ req'[w].pc = "done"
               /\ req'[w].resp = SignupSucceeded(req[w].email)
               /\ req'[w].resp.status = 200
               /\ Len(users') = Len(users) + 1
               /\ LET user == users'[Len(users')]
                  IN  /\ user.email = req[w].email
                      /\ ~user.is_verified
                      /\ user.verification_token # NoToken
                      /\ \E m \in mailing' \ mailing :
                            /\ m.by = Thread
                            /\ m.to = user.email
                            /\ m.token = user.verification_token
       /\ \A m \in mailing :
            (m.by = Thread /\ m \notin mailing') => users' = users /\ req' = req
       /\ Len(users') >= Len(users)
       /\ \A i \in Stored : users'[i].id = users[i].id /\ users'[i].email = users[i].email]_vars

\* the signup was answered, its mail has come to an end, another one is still
\* being sent, and both users are stored, unverified, with their tokens
SignupKeptAfterMail ==
    /\ Len(users) = 2
    /\ \A i \in Stored : ~users[i].is_verified /\ users[i].verification_token = i
    /\ mailing = {[to |-> users[2].email, token |-> 2, by |-> Thread]}
    /\ \A w \in Workers : req[w].pc = "done"
    /\ \E w \in Workers : req[w].resp = SignupSucceeded(users[1].email)

\* ---------------------------------------------------------------- C12
AlreadyVerifiedAck == Ok("Email is already verified", {})

\* C12: a ResendVerification that arrives for an email whose user (the record
\* the store returns for it) is verified reads that record, and one that
\* arrives for an email no user has reads nothing.  Having read a verified
\* record it can only answer the "already verified" acknowledgement (200), and
\* having read nothing only NotFound (404); in both cases no user record
\* changes, no token is drawn and no mail is started.
ResendHasNoEffect ==
    [][\A w \in Workers :
          /\ Arrives(w, "resend_update")
             => LET i == FirstIndex(users, [email |-> req'[w].email])
                IN  /\ i = 0 => req'[w].doc = NoDoc
                    /\ (i # 0 /\ users[i].is_verified)
                       => req'[w].doc = users[i] /\ req'[w].doc.is_verified
          /\ (Leaves(w, "resend_update") /\ req[w].doc # NoDoc /\ req[w].doc.is_verified)
             => /\ req'[w].pc = "done"
                /\ req'[w].resp = AlreadyVerifiedAck
                /\ req'[w].resp.status = 200
                /\ users' = users
                /\ nextTok' = nextTok
                /\ mailing' = mailing
          /\ (Leaves(w, "resend_update") /\ req[w].doc = NoDoc)
             => /\ req'[w].pc = "done"
                /\ req'[w].resp = UserNotFound404
                /\ req'[w].resp.status = 404
                /\ users' = users
                /\ nextTok' = nextTok
                /\ mailing' = mailing]_vars

\* a resend for the verified user was acknowledged and one for an unknown
\* email answered 404; the only token ever drawn was the signup's
ResendRefusedTwice ==
    /\ Len(users) = 1
    /\ users[1].is_verified
    /\ users[1].verification_token = NoToken
    /\ nextTok = 2
    /\ \E w, v \in Workers :
          /\ req[w].pc = "done" /\ req[w].resp = AlreadyVerifiedAck
          /\ req[v].pc = "done" /\ req[v].resp = UserNotFound404

\* ---------------------------------------------------------------- C13
\* C13: verified is terminal.  In every step of every handler (Signup,
\* VerifyEmail, ResendVerification, Login, the media operations), interleaved in
\* any way, a user record whose is_verified is true stays stored, at its place
\* and with its id, with is_verified true.
VerifiedIsTerminal ==
    [][\A i \in Stored :
          users[i].is_verified
          => /\ i <= Len(users')
             /\ users'[i].id = users[i].id
             /\ users'[i].is_verified]_vars

\* the user was verified, logged in and created an item; a resend that had read
\* the record before has since stored its token and left is_verified as it was
StillVerifiedAfterResend ==
    /\ Len(users) = 1
    /\ users[1].is_verified
    /\ users[1].verification_token = 2
    /\ Len(media) = 1
    /\ media[1].user_id = users[1].id
    /\ \E w \in Workers :
          req[w].pc = "done" /\ req[w].resp = Ok("Verification email resent successfully", {})

\* ---------------------------------------------------------------- C14
\* C14: every ResendVerification that has stored a new token for an unverified
\* user and gone on to send the mail eventually returns a response, even if
\* the mail server never answers.
ResendEventuallyReturns ==
    \A w \in Workers : (req[w].pc = "resend_send") ~> (req[w].pc = "done")

\* ---------------------------------------------------------------- C15
\* C15: whenever VerifyEmail(T) answers the success acknowledgement, the user
\* who held T when the request looked it up is stored with is_verified true
\* and no verification token at the time of the response, whatever
\* ResendVerification did for that user between the lookup and the update.
VerifySuccessMeansVerified ==
    [][\A w \in Workers :
          (Answers(w, "verify_update") /\ req'[w].resp.status = 200)
          => \E i \in 1..Len(users') :
                /\ users'[i].id = req[w].doc.id
                /\ users'[i].is_verified
                /\ users'[i].verification_token = NoToken]_vars

\* ---------------------------------------------------------------- C16
\* C16: Login checks the password before the verification status.  A Login
\* answers EmailNotVerified (403) only if it read a user and the password
\* supplied matches that user's hash; with a password that does not match, on
\* an unverified account, it answers InvalidCredentials (401).
PasswordBeforeVerified ==
    [][\A w \in Workers :
          Answers(w, "login_check")
          => /\ (req'[w].resp = EmailNotVerified \/ req'[w].resp.status = 403)
                => /\ req[w].doc # NoDoc
                   /\ verify_password(req[w].password, req[w].doc.hashed_password)
                   /\ ~req[w].doc.is_verified
             /\ (req[w].doc # NoDoc
                    /\ ~req[w].doc.is_verified
                    /\ ~verify_password(req[w].password, req[w].doc.hashed_password))
                => /\ req'[w].resp = InvalidCredentials
                   /\ req'[w].resp.status = 401]_vars

\* on the same unverified account one Login with the wrong password was
\* answered 401 and one with the right password 403
WrongPasswordUnverifiedSeen ==
    /\ Len(users) = 1
    /\ ~users[1].is_verified
    /\ users[1].hashed_password = hash_password("pw1")
    /\ \E w, v \in Workers :
          /\ req[w].pc = "done" /\ req[w].op = "login"
          /\ req[w].resp = InvalidCredentials
          /\ req[v].pc = "done" /\ req[v].op = "login"
          /\ req[v].resp = EmailNotVerified

\* ---------------------------------------------------------------- C17
\* C17: the update of an owner's PUT /media/{id} gives every field supplied in
\* the request its supplied value and updated_at the time of the update, and
\* leaves every field not supplied among title, type, status, current, total,
\* as well as id, user_id and created_at, and every other item, as stored; no
\* step of any request changes the user_id or created_at of an item or adds
\* an item under an id in use; a PUT answered 200 returns the item as stored.
UpdateChangesOnlySupplied ==
    [][/\ \A w \in Workers :
            /\ Leaves(w, "update_set")
               => LET i == FirstIndex(media, OwnItem(req[w].mid, req[w].doc.id))
                      supplied == req[w].body.set
                  IN  /\ Len(media') = Len(media)
                      /\ \A j \in 1..Len(media) : j # i => media'[j] = media[j]
                      /\ i # 0
                         => /\ \A f \in supplied : media'[i][f] = req[w].body[f]
                            /\ \A f \in MediaFields \ supplied : media'[i][f] = media[i][f]
                            /\ media'[i].id = media[i].id
                            /\ media'[i].user_id = media[i].user_id
                            /\ media'[i].created_at = media[i].created_at
                            /\ media'[i].updated_at = now
            /\ (Answers(w, "update_read") /\ req'[w].resp.status = 200)
               => \E i \in 1..Len(media) :
                     /\ media[i].id = req[w].mid
                     /\ media[i].user_id = req[w].doc.id
                     /\ req'[w].resp.data = {media[i]}
       /\ \A i \in 1..Len(media), j \in 1..Len(media') :
            media'[j].id = media[i].id
            => /\ media'[j].user_id = media[i].user_id
               /\ media'[j].created_at = media[i].created_at]_vars

\* a PUT that supplied status and current was answered with the item: both
\* changed, updated_at refreshed, the title, type, total and created_at as created
PartialUpdateSeen ==
    /\ Len(media) = 1
    /\ media[1].title = "Dune"
    /\ media[1].status = "done"
    /\ media[1].current = 1
    /\ media[1].created_at = 0
    /\ media[1].updated_at = 1
    /\ \E w \in Workers :
          /\ req[w].pc = "done"
          /\ req[w].op = "update_media"
          /\ req[w].resp = Ok("media", {media[1]})

\* ---------------------------------------------------------------- C18
\* C18: every session token Login issues has as its subject the id of a stored
\* user whose is_verified is true when the token is issued, and the subject of
\* every session token issued so far is such a user in every later state,
\* whatever Signup, VerifyEmail, ResendVerification and the media operations
\* do in between.
SessionsAreForVerifiedUsers ==
    [][/\ \A w \in Workers :
            (Answers(w, "login_check") /\ req'[w].resp.status = 200)
            => /\ req'[w].resp.data # {}
               /\ \A d \in req'[w].resp.data :
                     \E i \in Stored :
                        /\ users[i].id = d.access_token.sub
                        /\ users[i].email = d.access_token.email
                        /\ users[i].is_verified
                        /\ d.user = UserResponse(users[i])
       /\ \A t \in sessions' :
            \E i \in 1..Len(users') : users'[i].id = t.sub /\ users'[i].is_verified]_vars

\* the first user holds a session token; the Login of the second user, who has
\* signed up and not verified, was refused
SessionOnlyForVerified ==
    /\ Len(users) = 2
    /\ users[1].is_verified
    /\ ~users[2].is_verified
    /\ \E t \in sessions : t.sub = users[1].id
    /\ \E w \in Workers :
          /\ req[w].pc = "done"
          /\ req[w].op = "login"
          /\ req[w].resp = EmailNotVerified

\* ---------------------------------------------------------------- C19
\* C19: an owner's PUT /media/{id} whose final re-read finds no document (the
\* item was deleted by a concurrent DELETE after the ownership lookup) still
\* ends in one of the two specified outcomes, the updated item (200) or
\* NotFound (404), never in an internal error.
UpdateEndsInItemOrNotFound ==
    [][\A w \in Workers :
          (Answers(w, "update_read") /\ FirstIndex(media, [id |-> req[w].mid]) = 0)
          => /\ req'[w].resp.status \in {200, 404}
             /\ req'[w].resp # InternalServerError]_vars
====
